---------------------------- MODULE Spec2Model ----------------------------
(***************************************************************************)
(* Acquisition core of the Analog Discovery 2 control panels.               *)
(*                                                                          *)
(* Three near-duplicate applications are modelled, selected by `app`:       *)
(*   "basic"    src/ad2_gui.py                                              *)
(*   "complete" src/complete_ad2_gui.py                                     *)
(*   "updated"  src/ad2_gui_updated.py                                      *)
(*                                                                          *)
(* The UI context is one process (`ui`); every started acquisition thread   *)
(* is an element of the bag `loops`.  A process is a record [pc, buf]: its  *)
(* position and the capture number of the data in its local arrays.         *)
(* CPython switches threads between bytecodes, so every device-library call *)
(* and every hand-off is a step of its own; a sleep is the time a thread    *)
(* spends before its next step.  Handlers of the UI context run to          *)
(* completion, except the blocking single acquisition, whose wait loop      *)
(* keeps the UI context busy (ui.pc # "idle").                              *)
(*                                                                          *)
(* Data is abstracted to the number of the capture it belongs to (0: no     *)
(* data); the device is the environment: it may or may not finish an armed  *)
(* capture.  ad2_gui_updated.py reads DWF_AVAILABLE and DwfLibrary, which   *)
(* no file of the repository defines; the model takes the flag as a boolean *)
(* of the environment (`dwf`), fixed at start.  The same file calls         *)
(* self.update_status(...), which it never defines; the model takes it as a *)
(* function that writes the status-bar text and nothing else.               *)
(***************************************************************************)
EXTENDS Integers, Sequences, FiniteSets, Bags, TLC

\* ------------------------------------------------------------------ bounds
\* Live threads of one kind (acquisition, data logger, sweep) the model lets
\* exist at once.
MaxThreads == 2
\* Buffers (captures) produced in one run.
MaxCaptures == 3
\* Hand-offs (root.after callbacks) pending at once.
MaxPending == 2
\* Rows a data logger run is asked for (duration // interval).
MaxSamples == 2
\* Frequency points of a network sweep (the points entry).
NaPoints == 2

VARIABLES
  app,            \* which application is running
  dwf,            \* the WaveForms library is loaded (self.dwf / DWF_AVAILABLE)
  hdwf,           \* self.hdwf.value (self.device in "updated"): 0 = unopened
  is_connected,   \* self.is_connected
  is_acquiring,   \* self.is_acquiring
  status_label,   \* text of self.status_label ("basic" reads it back)
  btn,            \* which buttons are enabled (state=tk.NORMAL)
  cfgChanged,     \* the timebase (range, buffer size) widget was changed since the
                  \* configuration was last written to the device
  devOpen,        \* device side: the handle is open
  acq,            \* device side: AnalogIn state "ready" | "armed" | "done"
  devCap,         \* device side: capture number the device buffer belongs to
  ncap,           \* buffers produced so far (captures armed, data sets generated)
  ui,             \* the UI context's process
  loops,          \* bag of the live acquisition threads' processes
  afterq,         \* Tk's queue of root.after(0, ...) callbacks, oldest first
  ch1_data,       \* shared self.ch1_data / scope_data['ch1'], as a capture number
  ch2_data,       \* shared self.ch2_data / scope_data['ch2'], as a capture number
  shown,          \* the last render of the display
  call,           \* the step just taken and the device-library call it made
  widgets,        \* the oscilloscope widgets' values (text of an entry or menu)
  cycle,          \* the capture cycle in progress: position and local variables
  calls,          \* the device-library calls of the cycle, with their arguments
  devBufferSize,  \* device side: the count last given to FDwfAnalogInBufferSizeSet
  delivered,      \* the buffers the cycle has delivered to the display
  data_logger_running,  \* self.data_logger_running
  dl_btn,         \* which of the data logger's Start / Stop buttons are enabled
  loggers,        \* bag of the live data logger threads: [pc, n], n rows recorded
  network_running,      \* self.network_running (self.na_running in "updated")
  na_btn,         \* which of the network analyzer's Start / Stop buttons are enabled
  na_progress_window,   \* "complete": the progress window is on the screen
  sweeps,         \* bag of the live sweep threads: [pc, n], n points measured
  na_data         \* lengths of the three result lists of the network analyzer

vars == <<app, dwf, hdwf, is_connected, is_acquiring, status_label, btn, cfgChanged,
          devOpen, acq, devCap, ncap, ui, loops, afterq,
          ch1_data, ch2_data, shown, call,
          widgets, cycle, calls, devBufferSize, delivered,
          data_logger_running, dl_btn, loggers,
          network_running, na_btn, na_progress_window, sweeps, na_data>>

\* The values a capture cycle computes with.  The specification of the threads
\* (Spec) abstracts them to capture numbers and leaves these variables alone;
\* the specification of the data path (DataSpec) follows them through one cycle
\* at a time.
pathVars == <<widgets, cycle, calls, devBufferSize, delivered>>

\* The data logger and the network analyzer.  Spec and DataSpec leave them
\* alone; LoggerSpec and NetSpec follow them on a connected session.
loggerVars == <<data_logger_running, dl_btn, loggers>>
netVars == <<network_running, na_btn, na_progress_window, sweeps, na_data>>
toolVars == <<loggerVars, netVars>>

devVars == <<devOpen, acq, devCap, ncap>>
sessVars == <<hdwf, is_connected, is_acquiring, status_label, btn>>
dataVars == <<ch1_data, ch2_data>>
showVars == <<shown>>

Apps == {"basic", "complete", "updated"}

Proc(pc) == [pc |-> pc, buf |-> 0]
Idle == Proc("idle")

\* The step just taken: its context ("ui", "bg", or "dev" for the device itself),
\* the handler or statement it runs, and the class of device-library function
\* it calls: Enum, Open, Close, Set (AnalogIn configuration), Arm, Status, Data,
\* Out (AnalogOut), or "none".
NoCall == [ctx |-> "none", op |-> "none", fn |-> "none"]
Did(ctx, op, fn) == call' = [ctx |-> ctx, op |-> op, fn |-> fn]

\* ------------------------------------------------------------- processes
Live == BagCardinality(loops)

\* Process p of context ctx ("ui" or "bg") becomes q.
SetProc(ctx, p, q) ==
  IF ctx = "ui"
    THEN ui' = q /\ UNCHANGED loops
    ELSE loops' = (loops (-) SetToBag({p})) (+) SetToBag({q}) /\ UNCHANGED ui

\* Process p of context ctx returns from its function: a thread ends, the UI
\* context goes back to its event loop.
EndProc(ctx, p) ==
  IF ctx = "ui"
    THEN ui' = Idle /\ UNCHANGED loops
    ELSE loops' = loops (-) SetToBag({p}) /\ UNCHANGED ui

\* threading.Thread(target=...).start()
Spawn(pc) == loops' = loops (+) SetToBag({Proc(pc)})

\* ------------------------------------------------------------ the device
\* FDwfAnalogInConfigure(hdwf, False, True): arms a capture on an open handle;
\* on a closed handle the call fails and changes nothing.
DevArm ==
  IF devOpen
    THEN /\ acq' = "armed"
         /\ ncap' = ncap + 1
         /\ devCap' = ncap + 1
         /\ UNCHANGED devOpen
    ELSE UNCHANGED devVars

\* FDwfAnalogInStatus(...) stored 2 (DwfStateDone) in sts.
DevDone == devOpen /\ acq = "done"

\* FDwfAnalogInStatusData: the capture the device buffer holds (0: nothing read).
DevData == IF devOpen THEN devCap ELSE 0

\* FDwfAnalogInChannelRangeSet / FrequencySet / BufferSizeSet with the widgets'
\* values: on an open handle the device now holds what the widgets show.
DevConfigure == cfgChanged' = IF devOpen THEN FALSE ELSE cfgChanged

\* The armed capture triggers and fills the buffer.  Nothing forces it to.
DeviceCompletes ==
  /\ devOpen /\ acq = "armed"
  /\ acq' = "done"
  /\ Did("dev", "DeviceCompletes", "none")
  /\ UNCHANGED <<app, dwf, pathVars, toolVars, sessVars, cfgChanged, devOpen, devCap, ncap,
                 ui, loops, afterq, dataVars, showVars>>

\* ------------------------------------------------------------ the display
\* The display after a render: the captures whose channel-1 and channel-2 data
\* it drew, the capture the rendering callback was scheduled for (0: a direct
\* call), and whether the render delivered a capture the display showed already.
Shown(c1, c2, cb, again) == [c1 |-> c1, c2 |-> c2, cb |-> cb, again |-> again]

\* A buffer is delivered: one render of channel data c1, c2.
Render(c1, c2, cb) ==
  shown' = Shown(c1, c2, cb, c1 # 0 /\ c1 = shown.c1 /\ c2 = shown.c2)

\* A redraw of the channel data c1, c2 that delivers nothing new.
Redraw(c1, c2) == shown' = Shown(c1, c2, 0, FALSE)

\* --------------------------------------------------------------- buttons
AllOff == [start |-> FALSE, stop |-> FALSE, single |-> FALSE,
           connect |-> TRUE, disconnect |-> FALSE, test |-> TRUE]
\* "updated" never disables a button.
AllOn == [start |-> TRUE, stop |-> TRUE, single |-> TRUE,
          connect |-> TRUE, disconnect |-> TRUE, test |-> FALSE]

\* The widgets as create_widgets leaves them: both channels enabled, timebase
\* "1e-4", trigger source "Ch1" at level "0", buffer size entry "8192".
DefaultWidgets ==
  [ch1_var |-> TRUE, ch2_var |-> TRUE, timebase |-> "1e-4", buffer_size |-> "8192",
   trigger_source |-> "Ch1", trigger_level |-> "0"]

\* A local array of a capture cycle: its length and what filled it ("device":
\* FDwfAnalogInStatusData, "zeros": np.zeros, "none": no array).
Buf(len, src) == [len |-> len, src |-> src]
NoBuf == Buf(0, "none")

\* A time axis: its length and the timebase text it was computed from.
TimeAxis(len, timebase) == [len |-> len, timebase |-> timebase]
NoAxis == TimeAxis(0, "none")

\* No capture cycle is in progress.  Inside a cycle: its position, the locals
\* buffer_size and the timebase text the local `frequency` was computed from,
\* and the local arrays.
NoCycle == [pc |-> "idle", mode |-> "none", buffer_size |-> 0, timebase |-> "none",
            time |-> NoAxis, ch1 |-> NoBuf, ch2 |-> NoBuf]

\* The Start and Stop buttons of a tool tab.  "complete" creates them disabled
\* and connect_device enables Start; "updated" never disables a button.
ToolBtn(start, stop) == [start |-> start, stop |-> stop]

\* The result lists of the network analyzer, by their lengths.
Results(freq, mag, phase) == [freq |-> freq, mag |-> mag, phase |-> phase]
NoResults == Results(0, 0, 0)

Init ==
  /\ app \in Apps
  /\ dwf \in BOOLEAN
  /\ hdwf = 0
  /\ is_connected = FALSE
  /\ is_acquiring = FALSE
  /\ status_label = IF dwf THEN "Loaded" ELSE "NotFound"
  /\ btn = IF app = "updated" THEN AllOn ELSE AllOff
  /\ cfgChanged = FALSE
  /\ devOpen = FALSE
  /\ acq = "ready"
  /\ devCap = 0
  /\ ncap = 0
  /\ ui = Idle
  /\ loops = EmptyBag
  /\ afterq = <<>>
  /\ ch1_data = 0
  /\ ch2_data = 0
  /\ shown = Shown(0, 0, 0, FALSE)
  /\ call = NoCall
  /\ widgets = DefaultWidgets
  /\ cycle = NoCycle
  /\ calls = <<>>
  /\ devBufferSize = 0
  /\ delivered = <<>>
  /\ data_logger_running = FALSE
  /\ dl_btn = ToolBtn(app = "updated", app = "updated")
  /\ loggers = EmptyBag
  /\ network_running = FALSE
  /\ na_btn = ToolBtn(app = "updated", app = "updated")
  /\ na_progress_window = FALSE
  /\ sweeps = EmptyBag
  /\ na_data = NoResults


\* ------------------------------------------------------- the UI context
\* A handler runs only from the event loop of the UI context.
UiIdle == ui.pc = "idle"

\* stop_acquisition's body, as disconnect_device calls it too.
Stopped(b) == [b EXCEPT !.start = TRUE, !.stop = FALSE]

\* generate_test_data(): a fresh data set in the shared channel buffers.
CanGenerate == ncap < MaxCaptures

\* connect_device that marks the session connected before it looks at the handle
\* FDwfDeviceOpen stored.
connect_device_unchecked ==
  /\ UiIdle /\ btn.connect /\ app \in {"basic", "complete"} /\ dwf
  /\ UNCHANGED <<app, dwf, pathVars, toolVars, is_acquiring, ncap, ui, loops, afterq,
                 dataVars, showVars, acq, devCap, cfgChanged>>
  /\ \E cDevice \in {0, 1}, opened \in BOOLEAN :
       IF cDevice = 0
         THEN /\ Did("ui", "connect_device", "Enum")
              /\ UNCHANGED <<hdwf, is_connected, status_label, btn, devOpen>>
         ELSE /\ hdwf' = IF opened THEN 1 ELSE 0
              /\ devOpen' = opened
              /\ is_connected' = TRUE
              /\ status_label' = "Connected"
              /\ btn' = [btn EXCEPT !.connect = FALSE, !.disconnect = TRUE,
                                    !.start = TRUE, !.single = TRUE,
                                    !.test = FALSE]
              /\ Did("ui", "connect_device", "Open")

connect_device ==
  /\ UiIdle /\ btn.connect /\ app \in {"basic", "complete"}
  /\ UNCHANGED <<app, dwf, pathVars, toolVars, is_acquiring, ncap, ui, loops, afterq,
                 dataVars, showVars>>
  /\ IF ~dwf
       THEN \* "WaveForms library not loaded"
            /\ Did("ui", "connect_device", "none")
            /\ UNCHANGED <<hdwf, is_connected, status_label, btn,
                           devOpen, acq, devCap, cfgChanged>>
       ELSE \E cDevice \in {0, 1}, opened \in BOOLEAN :
              IF cDevice = 0
                THEN \* "No Analog Discovery 2 device found"
                     /\ Did("ui", "connect_device", "Enum")
                     /\ UNCHANGED <<hdwf, is_connected, status_label, btn,
                                    devOpen, acq, devCap, cfgChanged>>
                ELSE IF ~opened
                  THEN \* FDwfDeviceOpen stored hdwfNone: "Failed to open"
                       /\ hdwf' = 0
                       /\ Did("ui", "connect_device", "Open")
                       /\ UNCHANGED <<is_connected, status_label, btn,
                                      devOpen, acq, devCap, cfgChanged>>
                  ELSE /\ hdwf' = 1
                       /\ is_connected' = TRUE
                       /\ status_label' = "Connected"
                       /\ btn' = [btn EXCEPT !.connect = FALSE, !.disconnect = TRUE,
                                             !.start = TRUE, !.single = TRUE,
                                             !.test = FALSE]
                       /\ devOpen' = TRUE
                       /\ acq' = "ready"
                       /\ UNCHANGED devCap
                       \* "basic" goes on to configure_oscilloscope()
                       /\ cfgChanged' = IF app = "basic" THEN FALSE ELSE cfgChanged
                       /\ Did("ui", "connect_device",
                              IF app = "basic" THEN "Set" ELSE "Open")

\* "updated": connect_device, whose buttons and menu entries are never disabled.
connect_device_updated ==
  /\ UiIdle /\ app = "updated"
  /\ UNCHANGED <<app, dwf, pathVars, toolVars, is_acquiring, status_label, btn, cfgChanged, acq, devCap,
                 ncap, ui, loops, afterq, dataVars, showVars>>
  /\ IF dwf
       THEN \E device_count \in {0, 1}, opened \in BOOLEAN :
              IF device_count = 0 \/ ~opened
                THEN \* the error box, or open() raised: nothing is assigned
                     /\ Did("ui", "connect_device_updated",
                            IF device_count = 0 THEN "Enum" ELSE "Open")
                     /\ UNCHANGED <<hdwf, is_connected, devOpen>>
                ELSE /\ hdwf' = 1
                     /\ is_connected' = TRUE
                     /\ devOpen' = TRUE
                     /\ Did("ui", "connect_device_updated", "Open")
       ELSE \* simulation mode
            /\ is_connected' = TRUE
            /\ Did("ui", "connect_device_updated", "none")
            /\ UNCHANGED <<hdwf, devOpen>>

disconnect_device ==
  /\ UiIdle /\ btn.disconnect /\ app \in {"basic", "complete"}
  /\ UNCHANGED <<app, dwf, pathVars, toolVars, hdwf, cfgChanged, devCap, ncap, ui, loops, afterq>>
  /\ IF app = "basic"
       THEN /\ IF is_connected /\ dwf
                 THEN \* stop_acquisition(); FDwfDeviceClose(self.hdwf)
                      /\ is_acquiring' = FALSE
                      /\ devOpen' = FALSE
                      /\ acq' = "ready"
                      /\ Did("ui", "disconnect_device", "Close")
                 ELSE /\ Did("ui", "disconnect_device", "none")
                      /\ UNCHANGED <<is_acquiring, devOpen, acq>>
            /\ is_connected' = FALSE
            /\ status_label' = "Disconnected"
            /\ btn' = [start |-> FALSE, stop |-> FALSE, single |-> FALSE,
                       connect |-> TRUE, disconnect |-> FALSE, test |-> TRUE]
            /\ ch1_data' = 0
            /\ ch2_data' = 0
            \* self.canvas.delete("all"): the display shows no data
            /\ shown' = Shown(0, 0, 0, FALSE)
       ELSE /\ UNCHANGED <<dataVars, showVars>>
            /\ IF is_connected /\ hdwf # 0
                 THEN /\ is_acquiring' = FALSE
                      /\ devOpen' = FALSE
                      /\ acq' = "ready"
                      /\ Did("ui", "disconnect_device", "Close")
                      /\ is_connected' = FALSE
                      /\ status_label' = "Disconnected"
                      /\ btn' = [btn EXCEPT !.connect = TRUE, !.disconnect = FALSE,
                                            !.start = FALSE, !.stop = FALSE,
                                            !.single = FALSE]
                 ELSE /\ Did("ui", "disconnect_device", "none")
                      /\ UNCHANGED <<is_acquiring, devOpen, acq, is_connected,
                                     status_label, btn>>

disconnect_device_updated ==
  /\ UiIdle /\ app = "updated"
  /\ UNCHANGED <<app, dwf, pathVars, toolVars, is_acquiring, status_label, btn, cfgChanged, devCap,
                 ncap, ui, loops, afterq, dataVars, showVars>>
  /\ IF hdwf # 0 /\ dwf
       THEN /\ devOpen' = FALSE
            /\ acq' = "ready"
            /\ Did("ui", "disconnect_device_updated", "Close")
       ELSE /\ Did("ui", "disconnect_device_updated", "none")
            /\ UNCHANGED <<devOpen, acq>>
  /\ hdwf' = 0
  /\ is_connected' = FALSE

enable_test_mode ==
  /\ UiIdle /\ btn.test /\ app = "basic" /\ CanGenerate
  /\ is_connected' = TRUE
  /\ status_label' = "Test Mode Active"
  /\ btn' = [btn EXCEPT !.connect = FALSE, !.disconnect = TRUE, !.start = TRUE,
                        !.single = TRUE, !.test = FALSE]
  \* generate_test_data(); update_plot()
  /\ ncap' = ncap + 1
  /\ ch1_data' = ncap + 1
  /\ ch2_data' = ncap + 1
  /\ Render(ncap + 1, ncap + 1, 0)
  /\ Did("ui", "enable_test_mode", "none")
  /\ UNCHANGED <<app, dwf, pathVars, toolVars, hdwf, is_acquiring, cfgChanged, devOpen, acq, devCap,
                 ui, loops, afterq>>

\* The pc at which a new acquisition thread starts.
LoopEntry == CASE app = "basic" -> "al_arm"
               [] app = "complete" -> "al_check"
               [] OTHER -> "u_check"

\* start_acquisition without its `if not self.is_connected: return`.
start_acquisition_unguarded ==
  /\ UiIdle /\ btn.start
  /\ UNCHANGED <<app, dwf, pathVars, toolVars, hdwf, is_connected, status_label, cfgChanged, devVars, ui,
                 afterq, dataVars, showVars>>
  /\ Did("ui", "start_acquisition", "none")
  /\ Live < MaxThreads
  /\ is_acquiring' = TRUE
  /\ btn' = IF app = "updated" THEN btn
            ELSE [btn EXCEPT !.start = FALSE, !.stop = TRUE]
  /\ Spawn(LoopEntry)

start_acquisition ==
  /\ UiIdle /\ btn.start
  /\ UNCHANGED <<app, dwf, pathVars, toolVars, hdwf, is_connected, status_label, cfgChanged, devVars, ui,
                 afterq, dataVars, showVars>>
  /\ Did("ui", "start_acquisition", "none")
  /\ IF ~is_connected
       THEN UNCHANGED <<is_acquiring, btn, loops>>
       ELSE /\ Live < MaxThreads
            /\ is_acquiring' = TRUE
            /\ btn' = IF app = "updated" THEN btn
                      ELSE [btn EXCEPT !.start = FALSE, !.stop = TRUE]
            /\ Spawn(LoopEntry)

\* stop_acquisition that also closes the session, as disconnect_device does.
stop_acquisition_closing ==
  /\ UiIdle /\ btn.stop
  /\ is_acquiring' = FALSE
  /\ btn' = IF app = "updated" THEN btn ELSE Stopped(btn)
  /\ is_connected' = FALSE
  /\ devOpen' = FALSE
  /\ Did("ui", "stop_acquisition", IF devOpen THEN "Close" ELSE "none")
  /\ UNCHANGED <<app, dwf, pathVars, toolVars, hdwf, status_label, cfgChanged, acq, devCap, ncap, ui,
                 loops, afterq, dataVars, showVars>>

\* stop_acquisition / stop_oscilloscope (the Stop button)
stop_acquisition ==
  /\ UiIdle /\ btn.stop
  /\ is_acquiring' = FALSE
  /\ btn' = IF app = "updated" THEN btn ELSE Stopped(btn)
  /\ Did("ui", "stop_acquisition", "none")
  /\ UNCHANGED <<app, dwf, pathVars, toolVars, hdwf, is_connected, status_label, cfgChanged, devVars, ui,
                 loops, afterq, dataVars, showVars>>

\* The user picks another entry of the timebase menu.
set_timebase ==
  /\ UiIdle /\ app \in {"basic", "complete"}
  /\ cfgChanged' = TRUE
  /\ Did("ui", "set_timebase", "none")
  /\ UNCHANGED <<app, dwf, pathVars, toolVars, sessVars, devVars, ui, loops, afterq, dataVars, showVars>>

\* --------------------------------------------- steps of a capture cycle
\* Where a process of context ctx goes on after its capture cycle returned:
\* perform_acquisition returns into acquisition_loop's sleep, read_and_plot_data
\* into the loop's re-arm; the UI context returns to its event loop.
\* A return after which the single acquisition of the UI context goes round
\* again, as the loop of a thread does.
Return_looping(ctx, p) ==
  IF ctx = "ui"
    THEN ui' = Proc("pa_cfg") /\ UNCHANGED loops
    ELSE SetProc(ctx, p, Proc(IF app = "basic" THEN "al_rearm" ELSE "al_check"))

Return(ctx, p) ==
  IF ctx = "ui"
    THEN ui' = Idle /\ UNCHANGED loops
    ELSE SetProc(ctx, p, Proc(IF app = "basic" THEN "al_rearm" ELSE "al_check"))

single_acquisition ==
  /\ UiIdle /\ btn.single /\ app \in {"basic", "complete"}
  /\ Did("ui", "single_acquisition", "none")
  /\ UNCHANGED <<app, dwf, pathVars, toolVars, sessVars, cfgChanged, devOpen, acq, devCap,
                 loops, afterq>>
  /\ IF ~is_connected
       THEN UNCHANGED <<ui, ncap, dataVars, showVars>>
       ELSE IF app = "basic" /\ status_label = "Test Mode Active"
         THEN \* generate_test_data(); update_plot()
              /\ CanGenerate
              /\ ncap' = ncap + 1
              /\ ch1_data' = ncap + 1
              /\ ch2_data' = ncap + 1
              /\ Render(ncap + 1, ncap + 1, 0)
              /\ UNCHANGED ui
         ELSE \* the capture cycle runs in the UI context
              /\ ui' = Proc("pa_cfg")
              /\ UNCHANGED <<ncap, dataVars, showVars>>

\* The configuration calls: channel enable and range, frequency, buffer size
\* (and trigger), all with the widgets' current values.
pa_cfg(ctx, p) ==
  /\ p.pc = "pa_cfg"
  /\ DevConfigure
  /\ Did(ctx, "pa_cfg", "Set")
  /\ SetProc(ctx, p, [p EXCEPT !.pc = "pa_arm"])
  /\ UNCHANGED <<app, dwf, pathVars, toolVars, sessVars, devVars, afterq, dataVars, showVars>>

\* FDwfAnalogInConfigure(self.hdwf, c_bool(False), c_bool(True))
pa_arm(ctx, p) ==
  /\ p.pc = "pa_arm"
  /\ devOpen => ncap < MaxCaptures
  /\ DevArm
  /\ Did(ctx, "pa_arm", "Arm")
  /\ SetProc(ctx, p, [p EXCEPT !.pc = "pa_poll"])
  /\ UNCHANGED <<app, dwf, pathVars, toolVars, sessVars, cfgChanged, afterq, dataVars, showVars>>

\* The wait loop without its `if sts.value == 2` test: one poll, then the read.
pa_poll_unchecked(ctx, p) ==
  /\ p.pc = "pa_poll"
  /\ Did(ctx, "pa_poll", "Status")
  /\ SetProc(ctx, p, [p EXCEPT !.pc = "pa_read"])
  /\ UNCHANGED <<app, dwf, pathVars, toolVars, sessVars, cfgChanged, devVars, afterq, dataVars, showVars>>

\* while True: FDwfAnalogInStatus(...); if sts.value == 2: break
pa_poll(ctx, p) ==
  /\ p.pc = "pa_poll"
  /\ Did(ctx, "pa_poll", "Status")
  /\ SetProc(ctx, p, [p EXCEPT !.pc = IF DevDone THEN "pa_read" ELSE "pa_wait"])
  /\ UNCHANGED <<app, dwf, pathVars, toolVars, sessVars, cfgChanged, devVars, afterq, dataVars, showVars>>

\* time.sleep(0.001)
pa_wait(ctx, p) ==
  /\ p.pc = "pa_wait"
  /\ Did(ctx, "pa_wait", "none")
  /\ SetProc(ctx, p, [p EXCEPT !.pc = "pa_poll"])
  /\ UNCHANGED <<app, dwf, pathVars, toolVars, sessVars, cfgChanged, devVars, afterq, dataVars, showVars>>

\* FDwfAnalogInStatusData for channel 0 and channel 1 into the local arrays
pa_read(ctx, p) ==
  /\ p.pc \in {"pa_read", "rp_read"}
  /\ Did(ctx, "pa_read", "Data")
  /\ SetProc(ctx, p, [pc |-> IF app = "basic" THEN "rp_plot" ELSE "pa_after",
                      buf |-> DevData])
  /\ UNCHANGED <<app, dwf, pathVars, toolVars, sessVars, cfgChanged, devVars, afterq, dataVars, showVars>>

\* A root.after(0, ...) callback: the capture it is scheduled for, and whether its
\* closure holds that capture's arrays (otherwise it reads the shared buffers).
Callback(cap, closure) == [cap |-> cap, closure |-> closure]

\* self.root.after(0, lambda: self.update_oscilloscope_plot(time_data, ch1_array, ch2_array))
pa_after(ctx, p) ==
  /\ p.pc = "pa_after"
  /\ Len(afterq) < MaxPending
  /\ afterq' = Append(afterq, Callback(p.buf, TRUE))
  /\ Did(ctx, "pa_after", "none")
  /\ Return(ctx, p)
  /\ UNCHANGED <<app, dwf, pathVars, toolVars, sessVars, cfgChanged, devVars, dataVars, showVars>>

\* update_plot(): draws the shared buffers, unless both are empty.
update_plot(cb) ==
  IF ch1_data = 0 /\ ch2_data = 0
    THEN UNCHANGED showVars
    ELSE Render(ch1_data, ch2_data, cb)

\* "basic" read_and_plot_data, after the device reads: the local arrays are
\* stored in self.ch1_data and self.ch2_data and update_plot() draws them, all
\* in the calling context.  Arrays a closed handle left unfilled belong to no
\* capture (0) and count as no data.
rp_plot(ctx, p) ==
  /\ p.pc = "rp_plot"
  /\ ch1_data' = p.buf
  /\ ch2_data' = p.buf
  /\ IF p.buf = 0 THEN UNCHANGED showVars ELSE Render(p.buf, p.buf, 0)
  /\ Did(ctx, "rp_plot", "none")
  /\ Return(ctx, p)
  /\ UNCHANGED <<app, dwf, pathVars, toolVars, sessVars, cfgChanged, devVars, afterq>>

\* ------------------------------------------------- the acquisition threads
\* "basic" acquisition_loop on entry: the test-mode branch is chosen by the status
\* label; otherwise the first FDwfAnalogInConfigure.  Without the library
\* self.dwf is None, the call raises and the handler ends the thread.
al_arm(p) ==
  /\ p.pc = "al_arm"
  /\ IF status_label = "Test Mode Active"
       THEN /\ UNCHANGED devVars
            /\ Did("bg", "al_arm", "none")
            /\ SetProc("bg", p, Proc("t_check"))
       ELSE IF dwf
         THEN /\ devOpen => ncap < MaxCaptures
              /\ DevArm
              /\ Did("bg", "al_arm", "Arm")
              /\ SetProc("bg", p, Proc("al_check"))
         ELSE /\ UNCHANGED devVars
              /\ Did("bg", "al_arm", "none")
              /\ EndProc("bg", p)
  /\ UNCHANGED <<app, dwf, pathVars, toolVars, sessVars, cfgChanged, afterq, dataVars, showVars>>

\* The pc a thread goes to when its loop condition holds.  "complete":
\* perform_acquisition returns at once when not connected.
LoopBody(pc) ==
  CASE pc = "t_check" -> "t_gen1"
    [] pc = "u_check" -> "u_sim"
    [] app = "basic" -> "al_poll"
    [] OTHER -> IF is_connected THEN "pa_cfg" ELSE "al_check"

\* while self.is_acquiring: evaluated when the thread wakes from its sleep
al_check(p) ==
  /\ p.pc \in {"al_check", "t_check", "u_check"}
  /\ IF is_acquiring THEN SetProc("bg", p, Proc(LoopBody(p.pc)))
                     ELSE EndProc("bg", p)
  /\ Did("bg", "al_check", "none")
  /\ UNCHANGED <<app, dwf, pathVars, toolVars, sessVars, cfgChanged, devVars, afterq, dataVars, showVars>>

\* "basic": FDwfAnalogInStatus(...); if sts.value == 2: read_and_plot_data()
al_poll(p) ==
  /\ p.pc = "al_poll"
  /\ Did("bg", "al_poll", "Status")
  /\ SetProc("bg", p, Proc(IF DevDone THEN "rp_read" ELSE "al_check"))
  /\ UNCHANGED <<app, dwf, pathVars, toolVars, sessVars, cfgChanged, devVars, afterq, dataVars, showVars>>

\* "basic": the re-arm after read_and_plot_data
al_rearm(p) ==
  /\ p.pc = "al_rearm"
  /\ devOpen => ncap < MaxCaptures
  /\ DevArm
  /\ Did("bg", "al_rearm", "Arm")
  /\ SetProc("bg", p, Proc("al_check"))
  /\ UNCHANGED <<app, dwf, pathVars, toolVars, sessVars, cfgChanged, afterq, dataVars, showVars>>

\* "basic" test mode: generate_test_data(), first half: time_data is rebuilt,
\* self.ch1_data is emptied and refilled sample by sample (one step here)
t_gen1(p) ==
  /\ p.pc = "t_gen1"
  /\ CanGenerate
  /\ ncap' = ncap + 1
  /\ ch1_data' = ncap + 1
  /\ Did("bg", "t_gen1", "none")
  /\ SetProc("bg", p, [pc |-> "t_gen2", buf |-> ncap + 1])
  /\ UNCHANGED <<app, dwf, pathVars, toolVars, sessVars, cfgChanged, devOpen, acq, devCap,
                 afterq, ch2_data, showVars>>

\* generate_test_data(), second half: ch2_data is rebuilt
t_gen2(p) ==
  /\ p.pc = "t_gen2"
  /\ ch2_data' = p.buf
  /\ Did("bg", "t_gen2", "none")
  /\ SetProc("bg", p, [p EXCEPT !.pc = "t_after"])
  /\ UNCHANGED <<app, dwf, pathVars, toolVars, sessVars, cfgChanged, devVars, afterq, ch1_data, showVars>>

\* "updated": simulate_oscilloscope_data() stores a fresh data set in scope_data
u_sim(p) ==
  /\ p.pc = "u_sim"
  /\ CanGenerate
  /\ ncap' = ncap + 1
  /\ ch1_data' = ncap + 1
  /\ ch2_data' = ncap + 1
  /\ Did("bg", "u_sim", "none")
  /\ SetProc("bg", p, [pc |-> "t_after", buf |-> ncap + 1])
  /\ UNCHANGED <<app, dwf, pathVars, toolVars, sessVars, cfgChanged, devOpen, acq, devCap,
                 afterq, showVars>>

\* self.root.after(0, self.update_plot) / self.root.after(0, self.plot_oscilloscope_data)
t_after(p) ==
  /\ p.pc = "t_after"
  /\ Len(afterq) < MaxPending
  /\ afterq' = Append(afterq, Callback(p.buf, FALSE))
  /\ Did("bg", "t_after", "none")
  /\ SetProc("bg", p, Proc(IF app = "basic" THEN "t_check" ELSE "u_check"))
  /\ UNCHANGED <<app, dwf, pathVars, toolVars, sessVars, cfgChanged, devVars, dataVars, showVars>>

\* "updated": plot_oscilloscope_data() opens with `if not self.scope_data['time']`.
\* The initial [] returns; the numpy array simulate_oscilloscope_data stored has
\* no truth value (ValueError) unless it has fewer than two elements, and then it
\* is empty or [0.0], both false: the function never reaches a plot call.
plot_oscilloscope_data == UNCHANGED showVars

\* "updated": single_capture
single_capture ==
  /\ UiIdle /\ app = "updated"
  /\ Did("ui", "single_capture", "none")
  /\ UNCHANGED <<app, dwf, pathVars, toolVars, sessVars, cfgChanged, devOpen, acq, devCap,
                 ui, loops, afterq>>
  /\ IF ~is_connected
       THEN UNCHANGED <<ncap, dataVars, showVars>>
       ELSE /\ CanGenerate
            /\ ncap' = ncap + 1
            /\ ch1_data' = ncap + 1
            /\ ch2_data' = ncap + 1
            /\ plot_oscilloscope_data

\* ----------------------------------------- the UI context's other events
\* Tk runs the oldest pending root.after callback.
run_callback ==
  /\ UiIdle /\ afterq # <<>>
  /\ LET e == Head(afterq) IN
       CASE app = "complete" -> Render(e.cap, e.cap, e.cap)
         [] app = "basic" -> update_plot(e.cap)
         [] OTHER -> plot_oscilloscope_data
  /\ afterq' = Tail(afterq)
  /\ Did("ui", "run_callback", "none")
  /\ UNCHANGED <<app, dwf, pathVars, toolVars, sessVars, cfgChanged, devVars, ui, loops, dataVars>>

\* "basic": the canvas is resized; update_plot() redraws when there is data.
on_canvas_configure ==
  /\ UiIdle /\ app = "basic" /\ ch1_data # 0
  /\ Redraw(ch1_data, ch2_data)
  /\ Did("ui", "on_canvas_configure", "none")
  /\ UNCHANGED <<app, dwf, pathVars, toolVars, sessVars, cfgChanged, devVars, ui, loops, afterq, dataVars>>

\* A function-generator widget changes: the FDwfAnalogOut... calls.
update_function_generator ==
  /\ UiIdle /\ app \in {"basic", "complete"}
  /\ UNCHANGED <<app, dwf, pathVars, toolVars, sessVars, cfgChanged, devOpen, acq, devCap,
                 ui, loops, afterq>>
  /\ IF app = "basic" /\ (~is_connected \/ ~dwf)
       THEN /\ Did("ui", "update_function_generator", "none")
            /\ IF status_label = "Test Mode Active"
                 THEN /\ CanGenerate
                      /\ ncap' = ncap + 1
                      /\ ch1_data' = ncap + 1
                      /\ ch2_data' = ncap + 1
                      /\ Render(ncap + 1, ncap + 1, 0)
                 ELSE UNCHANGED <<ncap, dataVars, showVars>>
       ELSE /\ Did("ui", "update_function_generator",
                   IF is_connected THEN "Out" ELSE "none")
            /\ UNCHANGED <<ncap, dataVars, showVars>>

\* ------------------------------------------------------- specification
UiStep ==
  \/ connect_device
  \/ connect_device_updated
  \/ disconnect_device
  \/ disconnect_device_updated
  \/ enable_test_mode
  \/ start_acquisition
  \/ stop_acquisition
  \/ single_acquisition
  \/ single_capture
  \/ set_timebase
  \/ update_function_generator
  \/ on_canvas_configure
  \/ run_callback

\* One step of the capture cycle the UI context is inside.
UiCycle ==
  \/ pa_cfg("ui", ui)
  \/ pa_arm("ui", ui)
  \/ pa_poll("ui", ui)
  \/ pa_wait("ui", ui)
  \/ pa_read("ui", ui)
  \/ pa_after("ui", ui)
  \/ rp_plot("ui", ui)

\* One step of one acquisition thread.
LoopStep ==
  \E p \in BagToSet(loops) :
    \/ al_arm(p)
    \/ al_check(p)
    \/ al_poll(p)
    \/ al_rearm(p)
    \/ pa_cfg("bg", p)
    \/ pa_arm("bg", p)
    \/ pa_poll("bg", p)
    \/ pa_wait("bg", p)
    \/ pa_read("bg", p)
    \/ pa_after("bg", p)
    \/ rp_plot("bg", p)
    \/ t_gen1(p)
    \/ t_gen2(p)
    \/ t_after(p)
    \/ u_sim(p)

Next == UiStep \/ UiCycle \/ LoopStep \/ DeviceCompletes

Spec == Init /\ [][Next]_vars

\* ============================================================ the data path
\* One capture cycle at a time, with the values it computes: which channels are
\* enabled and read, the counts given to the device, the lengths of the arrays
\* delivered.  The session is connected and the device open throughout.

scopeVars == <<dwf, hdwf, is_connected, is_acquiring, status_label, btn, cfgChanged,
               devOpen, acq, devCap, ncap, ui, loops, afterq,
               ch1_data, ch2_data, shown>>
mainVars == <<scopeVars, call, toolVars>>

\* Entries of the read-only timebase menu (two of the twelve).
Timebases == {"1e-6", "1e-4"}

\* Texts the buffer size entry of "complete" may hold: it is a free entry.
BufferTexts == {"8192", "0", "-1", "abc"}

\* int(text) succeeds
IsInt(text) == text \in {"8192", "0", "-1"}

\* int(text), for a text that is a number
int(text) ==
  CASE text = "8192" -> 8192
    [] text = "0" -> 0
    [] text = "-1" -> 0 - 1

\* float(text) succeeds
IsFloat(text) == text # "abc"

\* "basic": buffer_size of configure_oscilloscope
ConfigureBufferSize == 8192

\* "basic": buffer_size of read_and_plot_data
ReadBufferSize == 8192

\* "basic": int(sample_rate * timebase_val * 10) with sample_rate = 20e6, in
\* Python's float arithmetic (20e6 * 1e-6 * 10 = 200.0, 20e6 * 1e-4 * 10 =
\* 20000.0)
Samples(timebase) ==
  CASE timebase = "1e-6" -> 200
    [] timebase = "1e-4" -> 20000

Min(a, b) == IF a <= b THEN a ELSE b

\* The values the widgets can be given.  "basic" has no buffer size entry and
\* no trigger controls.
WidgetValues ==
  {w \in [ch1_var : BOOLEAN, ch2_var : BOOLEAN, timebase : Timebases,
          buffer_size : BufferTexts, trigger_source : {"None", "Ch1"},
          trigger_level : {"0", "abc"}] :
     app = "basic" => /\ w.buffer_size = DefaultWidgets.buffer_size
                      /\ w.trigger_source = DefaultWidgets.trigger_source
                      /\ w.trigger_level = DefaultWidgets.trigger_level}

\* A device-library call: the function, the channel index, the count or flag.
Call(f, ch, n) == [f |-> f, ch |-> ch, n |-> n]

\* Buffers handed to the display: the time axis and the arrays of channel 1 and
\* channel 2.  update_plot / update_oscilloscope_plot draws those whose box is
\* ticked.
Delivery(mode, time, ch1, ch2) == [mode |-> mode, time |-> time, ch1 |-> ch1, ch2 |-> ch2]

DataInit ==
  /\ app \in {"basic", "complete"}
  /\ widgets \in WidgetValues
  /\ cycle = NoCycle
  /\ calls = <<>>
  \* "basic" connect_device went through configure_oscilloscope
  /\ devBufferSize = IF app = "basic" THEN ConfigureBufferSize ELSE 0
  /\ delivered = <<>>
  /\ dwf = TRUE
  /\ hdwf = 1
  /\ is_connected = TRUE
  /\ is_acquiring = FALSE
  /\ status_label = "Connected"
  /\ btn = [AllOff EXCEPT !.connect = FALSE, !.disconnect = TRUE, !.start = TRUE,
                          !.single = TRUE, !.test = FALSE]
  /\ cfgChanged = FALSE
  /\ devOpen = TRUE
  /\ acq = "ready"
  /\ devCap = 0
  /\ ncap = 0
  /\ ui = Idle
  /\ loops = EmptyBag
  /\ afterq = <<>>
  /\ ch1_data = 0
  /\ ch2_data = 0
  /\ shown = Shown(0, 0, 0, FALSE)
  /\ call = NoCall
  /\ data_logger_running = FALSE
  /\ dl_btn = ToolBtn(TRUE, FALSE)
  /\ loggers = EmptyBag
  /\ network_running = FALSE
  /\ na_btn = ToolBtn(TRUE, FALSE)
  /\ na_progress_window = FALSE
  /\ sweeps = EmptyBag
  /\ na_data = NoResults

\* The user changes one widget.  The UI context takes no event while it is
\* inside single_acquisition.
edit_widget ==
  /\ cycle.mode # "single"
  /\ \E w \in WidgetValues :
       /\ Cardinality({f \in DOMAIN w : w[f] # widgets[f]}) = 1
       /\ widgets' = w
  /\ UNCHANGED <<app, mainVars, cycle, calls, devBufferSize, delivered>>

\* Single is pressed, or the loop thread starts its next iteration.  "basic"
\* configures in single_acquisition only: its loop goes straight to the arm.
begin_cycle ==
  /\ cycle.pc = "idle"
  /\ \E mode \in {"single", "loop"} :
       cycle' = [NoCycle EXCEPT !.mode = mode,
                                !.pc = IF app = "basic" /\ mode = "loop"
                                         THEN "arm" ELSE "cfg"]
  /\ calls' = <<>>
  /\ delivered' = <<>>
  /\ UNCHANGED <<app, mainVars, widgets, devBufferSize>>

\* The channel enable calls of "complete": only for a channel whose box is ticked.
EnableCalls ==
  (IF widgets.ch1_var THEN <<Call("EnableSet", 0, 1)>> ELSE <<>>)
    \o (IF widgets.ch2_var THEN <<Call("EnableSet", 1, 1)>> ELSE <<>>)

\* "basic" configure_oscilloscope(); "complete" perform_acquisition up to the
\* trigger calls.  An int() or float() that raises ends the cycle in the
\* except clause.  (The range, frequency and trigger calls are not recorded.)
configure_oscilloscope ==
  /\ cycle.pc = "cfg"
  /\ IF app = "basic"
       THEN /\ calls' = calls \o <<Call("EnableSet", 0, 1), Call("EnableSet", 1, 1),
                                    Call("BufferSizeSet", 0, ConfigureBufferSize)>>
            /\ devBufferSize' = ConfigureBufferSize
            /\ cycle' = [cycle EXCEPT !.pc = "arm"]
       ELSE IF ~IsInt(widgets.buffer_size)
         THEN /\ cycle' = NoCycle
              /\ UNCHANGED <<calls, devBufferSize>>
         ELSE LET buffer_size == int(widgets.buffer_size) IN
                /\ calls' = calls \o EnableCalls
                                  \o <<Call("BufferSizeSet", 0, buffer_size)>>
                /\ devBufferSize' = buffer_size
                /\ cycle' = IF /\ widgets.trigger_source # "None"
                               /\ ~IsFloat(widgets.trigger_level)
                              THEN NoCycle
                              ELSE [cycle EXCEPT !.pc = "arm",
                                                 !.buffer_size = buffer_size,
                                                 !.timebase = widgets.timebase]
  /\ UNCHANGED <<app, mainVars, widgets, delivered>>

\* FDwfAnalogInConfigure(self.hdwf, c_bool(False), c_bool(True))
FDwfAnalogInConfigure ==
  /\ cycle.pc = "arm"
  /\ calls' = Append(calls, Call("Configure", 0, 1))
  /\ cycle' = [cycle EXCEPT !.pc = "wait"]
  /\ UNCHANGED <<app, mainVars, widgets, devBufferSize, delivered>>

\* FDwfAnalogInStatus stored 2 in sts: the wait loop ends.  (A poll that finds
\* another status changes nothing.)
status_done ==
  /\ cycle.pc = "wait"
  /\ calls' = Append(calls, Call("Status", 0, 2))
  /\ cycle' = [cycle EXCEPT !.pc = "read"]
  /\ UNCHANGED <<app, mainVars, widgets, devBufferSize, delivered>>

\* The count "complete" reads with: a re-read of the entry, as the timebase is
\* re-read for the time axis.
ReadCount_entry ==
  IF IsInt(widgets.buffer_size) THEN int(widgets.buffer_size) ELSE cycle.buffer_size

\* The count "complete" reads with: the local buffer_size of the cycle.
ReadCount == cycle.buffer_size

\* "complete": the time axis and the reads.  np.linspace(0, float(
\* self.timebase.get()) * 10, buffer_size) reads the timebase menu again and
\* raises on a negative count; a channel whose box is not ticked gets
\* np.zeros(buffer_size).
read_data ==
  /\ cycle.pc = "read" /\ app = "complete"
  /\ IF ReadCount < 0
       THEN cycle' = NoCycle /\ UNCHANGED calls
       ELSE /\ calls' = calls
                 \o (IF widgets.ch1_var THEN <<Call("StatusData", 0, ReadCount)>> ELSE <<>>)
                 \o (IF widgets.ch2_var THEN <<Call("StatusData", 1, ReadCount)>> ELSE <<>>)
            /\ cycle' = [cycle EXCEPT
                           !.pc = "after",
                           !.time = TimeAxis(ReadCount, widgets.timebase),
                           !.ch1 = Buf(ReadCount, IF widgets.ch1_var THEN "device" ELSE "zeros"),
                           !.ch2 = Buf(ReadCount, IF widgets.ch2_var THEN "device" ELSE "zeros")]
  /\ UNCHANGED <<app, mainVars, widgets, devBufferSize, delivered>>

\* "complete": root.after(0, lambda: self.update_oscilloscope_plot(...)) and
\* the callback.
update_oscilloscope_plot ==
  /\ cycle.pc = "after"
  /\ delivered' = Append(delivered, Delivery(cycle.mode, cycle.time,
                                              cycle.ch1, cycle.ch2))
  /\ cycle' = NoCycle
  /\ UNCHANGED <<app, mainVars, widgets, calls, devBufferSize>>

\* len(a[:n]) for a list of length len and n >= 0
SliceLen(len, n) == Min(len, n)

\* `samples` of read_and_plot_data without its `if samples > buffer_size` cap.
SampleCount_uncapped(timebase) == Samples(timebase)

\* "basic": samples = int(sample_rate * timebase_val * 10);
\* if samples > buffer_size: samples = buffer_size
SampleCount(timebase) ==
  IF Samples(timebase) > ReadBufferSize THEN ReadBufferSize ELSE Samples(timebase)

\* "basic" read_and_plot_data(): both channels are read with the fixed count
\* into lists of buffer_size elements, time_data gets `samples` elements, the
\* lists are cut with [:samples] and stored in self.ch1_data and self.ch2_data,
\* and update_plot() draws the ticked ones.
read_and_plot_data ==
  /\ cycle.pc = "read" /\ app = "basic"
  /\ calls' = calls \o <<Call("StatusData", 0, ReadBufferSize),
                          Call("StatusData", 1, ReadBufferSize)>>
  /\ LET samples == SampleCount(widgets.timebase) IN
       delivered' = Append(delivered,
                           Delivery(cycle.mode, TimeAxis(samples, widgets.timebase),
                                    Buf(SliceLen(ReadBufferSize, samples), "device"),
                                    Buf(SliceLen(ReadBufferSize, samples), "device")))
  /\ cycle' = NoCycle
  /\ UNCHANGED <<app, mainVars, widgets, devBufferSize>>

DataNext ==
  \/ edit_widget
  \/ begin_cycle
  \/ configure_oscilloscope
  \/ FDwfAnalogInConfigure
  \/ status_done
  \/ read_data
  \/ update_oscilloscope_plot
  \/ read_and_plot_data

DataSpec == DataInit /\ [][DataNext]_vars

\* ================================================= the tools of a session
\* The data logger and the network analyzer of "complete" and "updated", on a
\* session that is connected and stays connected.

ToolApps == {"complete", "updated"}

\* A tool thread: its position and how many rows / points it has done.
Tool(pc, n) == [pc |-> pc, n |-> n]

\* The session after connect_device succeeded; the tools are at rest.
ToolInit ==
  /\ app \in ToolApps
  /\ dwf = TRUE
  /\ hdwf = 1
  /\ is_connected = TRUE
  /\ is_acquiring = FALSE
  /\ status_label = IF app = "updated" THEN "Loaded" ELSE "Connected"
  /\ btn = IF app = "updated" THEN AllOn
           ELSE [AllOff EXCEPT !.connect = FALSE, !.disconnect = TRUE,
                               !.start = TRUE, !.single = TRUE, !.test = FALSE]
  /\ cfgChanged = FALSE
  /\ devOpen = TRUE
  /\ acq = "ready"
  /\ devCap = 0
  /\ ncap = 0
  /\ ui = Idle
  /\ loops = EmptyBag
  /\ afterq = <<>>
  /\ ch1_data = 0
  /\ ch2_data = 0
  /\ shown = Shown(0, 0, 0, FALSE)
  /\ call = NoCall
  /\ widgets = DefaultWidgets
  /\ cycle = NoCycle
  /\ calls = <<>>
  /\ devBufferSize = 0
  /\ delivered = <<>>
  /\ data_logger_running = FALSE
  /\ dl_btn = ToolBtn(TRUE, app = "updated")
  /\ loggers = EmptyBag
  /\ network_running = FALSE
  /\ na_btn = ToolBtn(TRUE, app = "updated")
  /\ na_progress_window = FALSE
  /\ sweeps = EmptyBag
  /\ na_data = NoResults

\* ---------------------------------------------------------- data logger
\* start_data_logger.  "updated" parses the duration entry first (a text that
\* is no integer raises, and the handler shows an error box); the thread is
\* created with the flag set.  "complete" disables Start and enables Stop.
start_data_logger ==
  /\ dl_btn.start
  /\ Did("ui", "start_data_logger", "none")
  /\ UNCHANGED <<app, scopeVars, pathVars, netVars>>
  /\ IF ~is_connected
       THEN UNCHANGED loggerVars
       ELSE \E parsed \in BOOLEAN :
              IF app = "updated" /\ ~parsed
                THEN UNCHANGED loggerVars
                ELSE /\ BagCardinality(loggers) < MaxThreads
                     /\ data_logger_running' = TRUE
                     /\ dl_btn' = IF app = "updated" THEN dl_btn
                                  ELSE ToolBtn(FALSE, TRUE)
                     /\ loggers' = loggers (+) SetToBag({Tool("test", 0)})

\* stop_data_logger.  "updated" then joins the thread for at most one second,
\* which changes nothing.
stop_data_logger ==
  /\ dl_btn.stop
  /\ data_logger_running' = FALSE
  /\ dl_btn' = IF app = "updated" THEN dl_btn ELSE ToolBtn(TRUE, FALSE)
  /\ Did("ui", "stop_data_logger", "none")
  /\ UNCHANGED <<app, scopeVars, pathVars, netVars, loggers>>

\* The loop test of the logger thread.
\*   "complete": while self.data_logger_running and sample_count < samples
\*   "updated":  while sample_count < total_samples and self.is_connected
LogMore(p) ==
  IF app = "complete" THEN data_logger_running /\ p.n < MaxSamples
                      ELSE p.n < MaxSamples /\ is_connected

\* The thread evaluates its loop test.  "complete" leaves the loop into the
\* end of the function; "updated" goes on to save_log_data.
dl_test(p) ==
  /\ p.pc = "test"
  /\ loggers' = (loggers (-) SetToBag({p})) (+)
                  (IF LogMore(p) THEN SetToBag({[p EXCEPT !.pc = "row"]})
                   ELSE IF app = "updated" THEN SetToBag({[p EXCEPT !.pc = "save"]})
                   ELSE EmptyBag)
  /\ Did("bg", "dl_test", "none")
  /\ UNCHANGED <<app, scopeVars, pathVars, netVars, data_logger_running, dl_btn>>

\* writer.writerow(row) / log_data.append(row); sample_count += 1
dl_row(p) ==
  /\ p.pc = "row"
  /\ loggers' = (loggers (-) SetToBag({p})) (+) SetToBag({Tool("sleep", p.n + 1)})
  /\ Did("bg", "dl_row", "none")
  /\ UNCHANGED <<app, scopeVars, pathVars, netVars, data_logger_running, dl_btn>>

\* time.sleep(interval) is over
dl_sleep(p) ==
  /\ p.pc = "sleep"
  /\ loggers' = (loggers (-) SetToBag({p})) (+) SetToBag({[p EXCEPT !.pc = "test"]})
  /\ Did("bg", "dl_sleep", "none")
  /\ UNCHANGED <<app, scopeVars, pathVars, netVars, data_logger_running, dl_btn>>

\* "updated": save_log_data(...); self.data_logger_running = False
dl_save(p) ==
  /\ p.pc = "save"
  /\ loggers' = loggers (-) SetToBag({p})
  /\ data_logger_running' = FALSE
  /\ Did("bg", "dl_save", "none")
  /\ UNCHANGED <<app, scopeVars, pathVars, netVars, dl_btn>>

LoggerStep == \E p \in BagToSet(loggers) : dl_test(p) \/ dl_row(p) \/ dl_sleep(p) \/ dl_save(p)

LoggerNext == start_data_logger \/ stop_data_logger \/ LoggerStep

LoggerSpec == ToolInit /\ [][LoggerNext]_vars

\* ------------------------------------------------------ network analyzer
\* The progress window of "complete" holds the grab (grab_set): while it is on
\* the screen the main window takes no event.
MainWindow == ~na_progress_window

\* start_network_analyzer.  The parameter validation may refuse.  "complete"
\* sets the flag, swaps the buttons, empties the result lists and shows the
\* progress window, and its body ends there: the thread creation is written
\* inside network_analysis_thread, which nothing calls.  "updated" empties the
\* lists, sets the flag and starts sweep_loop.
start_network_analyzer ==
  /\ MainWindow /\ na_btn.start
  /\ Did("ui", "start_network_analyzer", "none")
  /\ UNCHANGED <<app, scopeVars, pathVars, loggerVars>>
  /\ IF ~is_connected
       THEN UNCHANGED netVars
       ELSE \E valid \in BOOLEAN :
              IF ~valid
                THEN UNCHANGED netVars
                ELSE /\ network_running' = TRUE
                     /\ na_data' = NoResults
                     /\ IF app = "complete"
                          THEN /\ na_btn' = ToolBtn(FALSE, TRUE)
                               /\ na_progress_window' = TRUE
                               /\ UNCHANGED sweeps
                          ELSE /\ BagCardinality(sweeps) < MaxThreads
                               /\ sweeps' = sweeps (+) SetToBag({Tool("test", 0)})
                               /\ UNCHANGED <<na_btn, na_progress_window>>

\* "complete": the Stop Analysis button of the progress window,
\* command=lambda: setattr(self, 'network_running', False)
stop_analysis ==
  /\ na_progress_window
  /\ network_running' = FALSE
  /\ Did("ui", "stop_analysis", "none")
  /\ UNCHANGED <<app, scopeVars, pathVars, loggerVars, na_btn, na_progress_window,
                 sweeps, na_data>>

\* "complete": the user closes the progress window with the window manager's
\* close box; the program itself calls close_na_progress only from
\* network_analysis_thread.
WindowClosedByUser ==
  /\ na_progress_window
  /\ na_progress_window' = FALSE
  /\ Did("ui", "WindowClosedByUser", "none")
  /\ UNCHANGED <<app, scopeVars, pathVars, loggerVars, network_running, na_btn,
                 sweeps, na_data>>

\* stop_network_analyzer: the flag, and in "complete" the buttons (its join
\* finds no thread, its two device calls stop the generator).
stop_network_analyzer ==
  /\ MainWindow /\ na_btn.stop
  /\ network_running' = FALSE
  /\ na_btn' = IF app = "updated" THEN na_btn ELSE ToolBtn(TRUE, FALSE)
  /\ Did("ui", "stop_network_analyzer", IF app = "complete" THEN "Out" ELSE "none")
  /\ UNCHANGED <<app, scopeVars, pathVars, loggerVars, na_progress_window,
                 sweeps, na_data>>

\* export_na_data / perform_data_export: the UI context reads the three lists.
export_na_data ==
  /\ MainWindow
  /\ Did("ui", "export_na_data", "none")
  /\ UNCHANGED <<app, scopeVars, pathVars, toolVars>>

\* "updated" sweep_loop: `for i, freq in enumerate(freqs)` and
\* `if not self.na_running: break`
sw_test(p) ==
  /\ p.pc = "test"
  /\ sweeps' = (sweeps (-) SetToBag({p})) (+)
                 (IF p.n < NaPoints /\ network_running
                    THEN SetToBag({[p EXCEPT !.pc = "freq"]}) ELSE EmptyBag)
  /\ Did("bg", "sw_test", "none")
  /\ UNCHANGED <<app, scopeVars, pathVars, loggerVars, network_running, na_btn,
                 na_progress_window, na_data>>

\* self.na_freq_data.append(freq): the list the attribute names at this moment
sw_freq(p) ==
  /\ p.pc = "freq"
  /\ na_data' = [na_data EXCEPT !.freq = @ + 1]
  /\ sweeps' = (sweeps (-) SetToBag({p})) (+) SetToBag({[p EXCEPT !.pc = "mag"]})
  /\ Did("bg", "sw_freq", "none")
  /\ UNCHANGED <<app, scopeVars, pathVars, loggerVars, network_running, na_btn,
                 na_progress_window>>

\* self.na_s11_mag_data.append(s11_mag)
sw_mag(p) ==
  /\ p.pc = "mag"
  /\ na_data' = [na_data EXCEPT !.mag = @ + 1]
  /\ sweeps' = (sweeps (-) SetToBag({p})) (+) SetToBag({[p EXCEPT !.pc = "phase"]})
  /\ Did("bg", "sw_mag", "none")
  /\ UNCHANGED <<app, scopeVars, pathVars, loggerVars, network_running, na_btn,
                 na_progress_window>>

\* self.na_s11_phase_data.append(s11_phase); then
\* `if i % 10 == 0 or i == len(freqs) - 1: self.update_network_analyzer_plot()`
sw_phase(p) ==
  /\ p.pc = "phase"
  /\ na_data' = [na_data EXCEPT !.phase = @ + 1]
  /\ sweeps' = (sweeps (-) SetToBag({p})) (+)
                 SetToBag({IF p.n % 10 = 0 \/ p.n = NaPoints - 1
                             THEN [p EXCEPT !.pc = "plot"]
                             ELSE Tool("test", p.n + 1)})
  /\ Did("bg", "sw_phase", "none")
  /\ UNCHANGED <<app, scopeVars, pathVars, loggerVars, network_running, na_btn,
                 na_progress_window>>

\* update_network_analyzer_plot(), called by the sweep thread, reads the three
\* lists; then time.sleep(0.01) and the next point.
update_network_analyzer_plot(p) ==
  /\ p.pc = "plot"
  /\ sweeps' = (sweeps (-) SetToBag({p})) (+) SetToBag({Tool("test", p.n + 1)})
  /\ Did("bg", "update_network_analyzer_plot", "none")
  /\ UNCHANGED <<app, scopeVars, pathVars, loggerVars, network_running, na_btn,
                 na_progress_window, na_data>>

SweepStep ==
  \E p \in BagToSet(sweeps) :
    sw_test(p) \/ sw_freq(p) \/ sw_mag(p) \/ sw_phase(p) \/ update_network_analyzer_plot(p)

NetNext ==
  \/ start_network_analyzer
  \/ stop_analysis
  \/ WindowClosedByUser
  \/ stop_network_analyzer
  \/ export_na_data
  \/ SweepStep

NetSpec == ToolInit /\ [][NetNext]_vars

\* The scheduler lets every live sweep thread take steps; the user need not act.
NetFairSpec == NetSpec /\ WF_vars(SweepStep)

\* ============================================================ properties
\* The handlers that start a loop or a single capture.
StartOps == {"start_acquisition", "single_acquisition", "single_capture"}

\* C1: a capture is armed (FDwfAnalogInConfigure with start=True) only while no
\* capture armed before on the same handle is still outstanding: no step arms
\* the device while the capture it is acquiring has not finished.
ArmOnlyWhenNoneOutstanding == [][call'.fn = "Arm" => acq # "armed"]_vars

\* C2: after any sequence of start and stop calls at most one acquisition loop
\* thread is alive.
AtMostOneLoopThread == Live <= 1

\* C3: while is_connected is False, start_acquisition / start_oscilloscope and
\* single_acquisition / single_capture change nothing: is_acquiring keeps its
\* value (so a False stays False), no thread is created, the UI context enters
\* no capture cycle, and no device-library function is called.
StartOnClosedSessionFails ==
  [][(~is_connected /\ call'.op \in StartOps)
       => /\ is_acquiring' = is_acquiring
          /\ loops' = loops
          /\ ui' = ui
          /\ call'.fn = "none"
          /\ devVars' = devVars]_vars

\* C3 witness: Start was pressed on a session that is not open.
StartedOnClosedSession ==
  ~is_connected /\ ~is_acquiring /\ call.op = "start_acquisition"

\* C4: a stop issued while the loop thread is polling an armed capture for
\* the done status is observed at the thread's next poll iteration: the one
\* loop thread that has finished the sleep between two polls with is_acquiring
\* False does not poll the device again (and so reads and hands over nothing).
StopObservedAtNextPoll ==
  [][(/\ Live = 1 /\ ~is_acquiring /\ devOpen /\ acq = "armed"
      /\ call.ctx = "bg" /\ call.op \in {"pa_wait", "al_check"})
       => ~(call'.ctx = "bg" /\ call'.fn = "Status")]_vars

\* A process is in the wait loop of single_acquisition / perform_acquisition.
Waiting(p) == p.pc \in {"pa_poll", "pa_wait"}

\* The scheduler lets every live thread and a busy UI context take steps; the
\* user need not act and the device need not finish a capture.
FairSpec == Spec /\ WF_vars(UiCycle) /\ WF_vars(LoopStep)

\* C5: a wait loop eventually ends, by the done status or else by a timeout:
\* whenever a single acquisition is in its wait loop (no loop thread beside
\* it), it is later outside the wait loop.
WaitLoopEnds == (Live = 0 /\ Waiting(ui)) ~> ~Waiting(ui)

\* C6: after disconnect_device has closed the handle (self.hdwf keeps its
\* value, the device is closed), no acquisition thread calls a device-library
\* function until the next connect_device.
NoCallOnClosedHandle ==
  [][(hdwf # 0 /\ ~devOpen) => ~(call'.ctx = "bg" /\ call'.fn # "none")]_vars

\* C7: while the acquisition loop is running (is_acquiring set, a loop thread
\* alive), the UI context calls no device-library function, the close of
\* disconnect_device apart.
HandleOwnedByLoop ==
  [][(is_acquiring /\ Live > 0)
       => ~(call'.ctx = "ui" /\ call'.fn # "none" /\ call'.op # "disconnect_device")]_vars

\* C8: while a capture is armed and not yet done, a configuration change made
\* in the UI is not written to the device.
NoConfigureWhileArmed == [][(acq = "armed" /\ cfgChanged) => cfgChanged']_vars

\* C9: a scheduled display callback never draws channel-1 and channel-2 data of
\* two different captures in one update, and never draws a capture older than
\* the one the display showed before.
DeliveredTogetherInOrder ==
  [][shown'.cb # 0 => (shown'.c1 = shown'.c2 /\ shown'.c1 >= shown.c1)]_vars

\* C10: a render scheduled for capture k that draws one capture's data draws
\* capture k, and no capture is delivered to the display a second time.
DeliveredAtMostOnce ==
  /\ (shown.cb # 0 /\ shown.c1 = shown.c2) => shown.c1 = shown.cb
  /\ ~shown.again

\* C11: hand-offs to the UI context are latest-wins: a hand-off scheduled
\* while an older one is still undelivered replaces it, so the root.after
\* callbacks the acquisition thread has pending never exceed one (the fixed
\* bound of a latest-wins slot).
PendingLatestWins == Len(afterq) <= 1

\* C12: stop_acquisition / stop_oscilloscope leaves the session open and is
\* idempotent: the step changes nothing but the acquiring flag and the Start
\* and Stop buttons; is_connected, the handle and the device are untouched, no
\* device-library function is called, and stop applied to the state it leaves
\* changes nothing (the flag is False, the buttons are in their stopped state).
StopLeavesSessionOpen ==
  [][call'.op = "stop_acquisition"
       => /\ is_connected' = is_connected
          /\ hdwf' = hdwf
          /\ devVars' = devVars
          /\ call'.fn = "none"
          /\ <<status_label, cfgChanged, ui, loops, afterq, dataVars, showVars>>'
               = <<status_label, cfgChanged, ui, loops, afterq, dataVars, showVars>>
          /\ \A b \in {"single", "connect", "disconnect", "test"} : btn'[b] = btn[b]
          /\ is_acquiring' = FALSE
          /\ app # "updated" => Stopped(btn') = btn']_vars

\* C12 witness: Stop was pressed while a loop thread ran on an open device, and
\* the session is still open.
StoppedWithOpenSession ==
  call.op = "stop_acquisition" /\ is_connected /\ devOpen /\ hdwf # 0 /\ Live > 0

\* The handlers that close the session.
DisconnectOps == {"disconnect_device", "disconnect_device_updated"}

\* C13: close is idempotent: disconnect_device on a session whose device handle
\* is not open (closed before, or never opened) issues no FDwfDeviceClose /
\* device.close call and leaves the session closed.
CloseIsIdempotent ==
  [][(~devOpen /\ call'.op \in DisconnectOps)
       => (call'.fn # "Close" /\ ~is_connected' /\ ~devOpen')]_vars

\* The handlers that open the session.
ConnectOps == {"connect_device", "connect_device_updated"}

\* The step just taken was a connect_device that failed: the enumeration found
\* no device, or the open left no handle.
OpenFailed(c, h) == c.op \in ConnectOps /\ (c.fn = "Enum" \/ (c.fn = "Open" /\ h = 0))

\* C14: a connect_device on a closed session that fails, with zero devices
\* enumerated or with a handle of 0 after the open, leaves the session closed:
\* is_connected stays False, the device is not open, no button changes (Start
\* and Single stay disabled where the application disables them), and nothing
\* starts acquiring.
FailedOpenLeavesSessionClosed ==
  [][(~is_connected /\ OpenFailed(call', hdwf'))
       => /\ ~is_connected'
          /\ ~devOpen'
          /\ btn' = btn
          /\ app # "updated" => (~btn'.start /\ ~btn'.single /\ ~btn'.stop)
          /\ is_acquiring' = is_acquiring
          /\ loops' = loops
          /\ ui' = ui]_vars

\* C14 witness: FDwfDeviceOpen has just failed (handle 0) on a closed session.
OpenJustFailed == OpenFailed(call, hdwf) /\ call.fn = "Open" /\ ~is_connected

\* C15: a device-library call that fails aborts the capture cycle: once the one
\* acquisition thread has made a call that failed (here: on a handle that is
\* not open, where every FDwf function reports failure), its next step makes
\* no further device-library call: it neither arms, nor polls, nor reads.
FailedCallAbortsCycle ==
  [][(Live = 1 /\ call.ctx = "bg" /\ call.fn # "none" /\ ~devOpen)
       => ~(call'.ctx = "bg" /\ call'.fn # "none")]_vars

\* The positions from which a process calls FDwfAnalogInStatusData next.
ReadPcs == {"pa_read", "rp_read"}

\* How many processes (the UI context and the threads) are about to read.
AtRead ==
  LET readers == {p \in BagToSet(loops) : p.pc \in ReadPcs} IN
    (IF ui.pc \in ReadPcs THEN 1 ELSE 0) + BagCardinality([p \in readers |-> loops[p]])

\* C20: FDwfAnalogInStatusData is called only after a status poll of the same
\* cycle returned done: a process gets to the read only by a step that polls
\* FDwfAnalogInStatus and finds DwfStateDone, and every StatusData call is made
\* by a process that got there.
ReadOnlyAfterDone ==
  [][/\ AtRead' > AtRead => (call'.fn = "Status" /\ DevDone)
     /\ call'.fn = "Data" => (AtRead > 0 /\ AtRead' = AtRead - 1)]_vars

\* C20 witness: a thread has just read the buffer of a finished capture.
ReadAfterDone == call.ctx = "bg" /\ call.fn = "Data" /\ devOpen /\ acq = "done"

\* The state of the acquisition state machine a process at position pc is in:
\* Arming up to and including the arm call (the loop test and the configuration
\* calls before it), Waiting from the arm call to the done status, Reading from
\* the done status to the hand-off.  In the loops that generate their data,
\* generate_test_data / simulate_oscilloscope_data stands for the wait and the
\* read of the device.
Phase(pc) ==
  CASE pc = "idle" -> "Idle"
    [] pc \in {"al_arm", "al_rearm", "pa_cfg", "pa_arm", "t_check", "u_check"} -> "Arming"
    [] pc = "al_check" -> IF app = "basic" THEN "Waiting" ELSE "Arming"
    [] pc \in {"al_poll", "pa_poll", "pa_wait", "t_gen1", "u_sim"} -> "Waiting"
    [] OTHER -> "Reading"

\* The transitions of the state machine for a move from state a to state b in
\* context ctx: those of one capture cycle, the loop back of a thread, the end
\* of a single acquisition, and the stop and error transitions to Idle.
Transition(ctx, a, b) ==
  \/ a = b
  \/ <<a, b>> \in {<<"Idle", "Arming">>, <<"Arming", "Waiting">>, <<"Waiting", "Reading">>}
  \/ ctx = "bg" /\ <<a, b>> = <<"Reading", "Arming">>
  \/ ctx = "ui" /\ <<a, b>> = <<"Reading", "Idle">>
  \/ ctx = "bg" /\ b = "Idle" /\ a # "Reading" /\ (~is_acquiring \/ ~dwf)

\* The states of the thread that a step changes: before (Idle: a thread is
\* created) and after (Idle: the thread ends).
PhasesOf(from, to) ==
  LET moved == {p \in BagToSet(from) : CopiesIn(p, to) < CopiesIn(p, from)} IN
    IF moved = {} THEN {"Idle"} ELSE {Phase(p.pc) : p \in moved}

\* C19: every step of acquisition_loop / perform_acquisition / single_acquisition
\* is a transition of the state machine Idle, Arming, Waiting, Reading: a thread
\* goes from Reading back to Arming, the single acquisition of the UI context
\* from Reading to Idle, and a thread becomes Idle only when stopped or on an
\* error.
LoopRefinesStateMachine ==
  [][/\ Transition("ui", Phase(ui.pc), Phase(ui'.pc))
     /\ loops' # loops
          => \A a \in PhasesOf(loops, loops'), b \in PhasesOf(loops', loops) :
               Transition("bg", a, b)]_vars

\* C19 witness: a running thread has just delivered a capture and is back at
\* the top of its loop, about to arm again.
LoopedBackAfterReading ==
  /\ call.ctx = "bg" /\ call.op \in {"pa_after", "rp_plot"} /\ is_acquiring
  /\ \E p \in BagToSet(loops) : Phase(p.pc) = "Arming"

\* C17: a single-shot acquisition with channel 1 enabled and channel 2 disabled
\* runs exactly one capture cycle (one arm), delivers exactly one buffer of
\* channel 1 with at most bufferSize samples and none of channel 2 (channel 2 is
\* not read and no array of its samples is handed over), and leaves the loop
\* Idle.
SingleShotDeliversEnabledOnly ==
  [][(/\ cycle.mode = "single" /\ Len(delivered') > Len(delivered)
      /\ widgets.ch1_var /\ ~widgets.ch2_var)
       => LET d == delivered'[Len(delivered')] IN
            /\ Len(delivered') = 1
            /\ d.ch1.src = "device" /\ d.ch1.len <= devBufferSize
            /\ d.ch2.src # "device"
            /\ \A i \in DOMAIN calls' : calls'[i].f = "StatusData" => calls'[i].ch = 0
            /\ Cardinality({i \in DOMAIN calls' : calls'[i].f = "Configure"}) = 1
            /\ cycle'.pc = "idle"]_vars

\* C18: within a capture cycle the count given to FDwfAnalogInStatusData equals
\* the count given to FDwfAnalogInBufferSizeSet (the count the device was last
\* configured with), and no array delivered has more samples than that count.
ReadCountIsConfiguredCount ==
  /\ \A i \in DOMAIN calls : calls[i].f = "StatusData" => calls[i].n = devBufferSize
  /\ \A i \in DOMAIN delivered : /\ delivered[i].ch1.len <= devBufferSize
                                  /\ delivered[i].ch2.len <= devBufferSize

\* C18 witness: the loop of "complete" has read and delivered a capture with
\* the count of its BufferSizeSet call while the entry already shows another
\* text.
ReadWithConfiguredCount ==
  /\ app = "complete" /\ delivered # <<>>
  /\ \E i, j \in DOMAIN calls :
       /\ calls[i].f = "BufferSizeSet" /\ calls[j].f = "StatusData"
       /\ calls[i].n = calls[j].n /\ calls[j].n > 0
  /\ widgets.buffer_size # "8192"

\* C21: read_and_plot_data truncates to the time window: the time axis and the
\* two channel lists it leaves have the same length, the smaller of
\* int(sample_rate * timebase * 10) and the buffer size 8192.
TruncatedToTimeWindow ==
  app = "basic" =>
    \A i \in DOMAIN delivered :
      LET d == delivered[i] IN
        /\ d.time.len = d.ch1.len
        /\ d.ch1.len = d.ch2.len
        /\ d.time.len = Min(Samples(d.time.timebase), 8192)

\* C21 witness: read_and_plot_data has delivered lists cut below the buffer size
\* (timebase 1e-6: 200 samples of the 8192 read).
DeliveredTruncated ==
  /\ app = "basic" /\ delivered # <<>>
  /\ delivered[1].ch1.len < ReadBufferSize
  /\ \E i \in DOMAIN calls : calls[i].f = "StatusData" /\ calls[i].n = ReadBufferSize

\* C30: one capture cycle of perform_acquisition uses one configuration
\* snapshot: the time axis delivered with a buffer is computed from the timebase
\* the capture's frequency was configured with, and has the length of the
\* buffer size the capture was configured with.
OneConfigurationSnapshot ==
  [][(app = "complete" /\ cycle.pc = "read" /\ cycle'.pc = "after")
       => /\ cycle'.time.timebase = cycle.timebase
          /\ cycle'.time.len = devBufferSize]_vars

\* C22: only the UI context touches UI state: no step of an acquisition thread
\* redraws the display; what a thread has read reaches the canvas only through
\* a root.after callback that the UI context runs.
OnlyUiTouchesDisplay == [][call'.ctx = "bg" => shown' = shown]_vars

AcquiringImpliesConnected == is_acquiring => is_connected

\* C25: the acquiring flag tracks the loop thread: is_acquiring is True only
\* while an acquisition thread is alive (a thread that ends, its exception
\* handler included, leaves the flag False).
AcquiringImpliesLiveThread == is_acquiring => Live > 0

\* C26: test mode performs no hardware access: while ad2_gui.py is in test mode
\* (enable_test_mode, no device opened), no step of the UI context or of an
\* acquisition thread calls a device-library function.
TestModeNoHardwareAccess ==
  [][(app = "basic" /\ status_label = "Test Mode Active" /\ ~devOpen)
       => call'.fn = "none"]_vars

\* C27: start_network_analyzer of "complete", once its validation has passed
\* (network_running is set), has launched the sweep thread, and the analysis
\* eventually ends: network_running is False again and the progress window is
\* closed.
NetworkSweepEnds ==
  /\ [][(app = "complete" /\ call'.op = "start_network_analyzer" /\ network_running')
          => sweeps' # EmptyBag]_vars
  /\ (app = "complete" /\ network_running) ~> (~network_running /\ ~na_progress_window)

\* C28: once stop_data_logger has set data_logger_running to False, the logger
\* thread records no further row.
StopEndsLogging ==
  [][(~data_logger_running /\ BagCardinality(loggers) = 1) => call'.op # "dl_row"]_vars

\* The steps that read the result lists of the network analyzer.
NaReadOps == {"update_network_analyzer_plot", "export_na_data"}

=============================================================================
